---- MODULE Spec2Model ----
(***************************************************************************)
(* Model of bbbscrape/main.py: the Scrape pipeline                         *)
(*   fetch_images -> read_timestamps -> generate_frames -> generate_concat *)
(* with its two worker pools (fetch_image, generate_frame) that share the  *)
(* attribute self.workq.                                                   *)
(*                                                                         *)
(* Representation choices:                                                 *)
(*  - an ElementTree element is a record [tag, attrib, children]; attrib   *)
(*    is a function whose DOMAIN is the set of attribute names present;    *)
(*  - an xlink:href value is the sequence of its '/'-separated segments;   *)
(*  - a style value is the sequence of its ';'-separated tokens (what      *)
(*    str.split(";") returns), the empty string being <<"">>;              *)
(*  - a float is an integer number of seconds; float() maps the attribute  *)
(*    strings of the model to it ("2" and "2.0" are the same float);       *)
(*  - Python's None is the string "None", which is no id of any document.  *)
(***************************************************************************)
EXTENDS Integers, Sequences, FiniteSets, TLC

(* os.cpu_count(): the size of each worker pool *)
NumWorkers == 2

Workers == 1 .. NumWorkers

None == "None"

NoAttrib == [x \in {} |-> ""]

Hidden == "visibility:hidden"

(***************************************************************************)
(* Helpers on sequences                                                    *)
(***************************************************************************)
Range(s) == {s[i] : i \in DOMAIN s}

Last(s) == s[Len(s)]

(* list.remove(x): drops the first occurrence of x (x is known to occur) *)
RECURSIVE ListRemove(_, _)
ListRemove(s, x) ==
    IF Head(s) = x THEN Tail(s) ELSE <<Head(s)>> \o ListRemove(Tail(s), x)

(* DictFromKeys that keeps every occurrence *)
DictFromKeys_KeepAll(s) == s

(* list(dict.fromkeys(s)): keeps the first occurrence of each value *)
RECURSIVE DictFromKeys(_)
DictFromKeys(s) ==
    IF s = <<>> THEN <<>>
    ELSE LET init == DictFromKeys(SubSeq(s, 1, Len(s) - 1))
         IN  IF Last(s) \in Range(init) THEN init ELSE Append(init, Last(s))

RECURSIVE InsertSorted(_, _)
InsertSorted(s, x) ==
    IF s = <<>> THEN <<x>>
    ELSE IF x < Head(s) THEN <<x>> \o s
    ELSE <<Head(s)>> \o InsertSorted(Tail(s), x)

(* list.sort() on floats *)
RECURSIVE ListSort(_)
ListSort(s) ==
    IF s = <<>> THEN <<>> ELSE InsertSorted(ListSort(Tail(s)), Head(s))

(***************************************************************************)
(* Conversions                                                             *)
(***************************************************************************)
(* float(str) on the attribute strings of the model's documents *)
Float(s) ==
    CASE s = "0"   -> 0
      [] s = "0.0" -> 0
      [] s = "1.0" -> 1
      [] s = "2"   -> 2
      [] s = "2.0" -> 2
      [] s = "3.0" -> 3
      [] s = "4.0" -> 4

(* os.path.basename(href) *)
Basename(href) == <<Last(href)>>

(* ";".join(tokens), as the token sequence of the joined string *)
Join(tokens) == IF tokens = <<>> THEN <<"">> ELSE tokens

Has(e, k) == k \in DOMAIN e.attrib

(* e.attrib[k] = v *)
SetAttr(e, k, v) ==
    [e EXCEPT !.attrib =
        [x \in (DOMAIN e.attrib) \cup {k} |-> IF x = k THEN v ELSE e.attrib[x]]]

(***************************************************************************)
(* Scene documents                                                         *)
(***************************************************************************)
Elem(tag, attrib, children) ==
    [tag |-> tag, attrib |-> attrib, children |-> children]

Href1 == <<"presentation", "slide-1.png">>
Href2 == <<"presentation", "slide-2.png">>
Href3 == <<"presentation", "poll.png">>

ImageElem(id, href, tin, tout) ==
    Elem("image",
         [id |-> id, href |-> href, in |-> tin, out |-> tout,
          style |-> <<Hidden>>],
         <<>>)

CanvasElem(id, image, children) ==
    Elem("g", [id |-> id, class |-> "canvas", image |-> image,
               display |-> "none"], children)

AnnElem(id, ts, style, children) ==
    Elem("g", [id |-> id, timestamp |-> ts, style |-> style], children)


(* an annotation-free, attribute-free child that is no group *)
PathElem == Elem("path", [d |-> "M0 0"], <<>>)

(* poll result image nested in a shape: no id, no in/out *)
PollElem == Elem("image", [href |-> Href3], <<>>)

(* (in, out) of image1 and of image2 *)
Consecutive == <<"0", "2", "2.0", "4.0">>

LateStart == <<"1.0", "3.0", "3.0", "4.0">>

Overlapping == <<"0.0", "4.0", "2.0", "4.0">>

(* the defects a document can have *)
Defects == { "nohidden", "nostyle", "badclass", "noclass", "noimage", "noid" }

Anns1(ats, v) ==
    CASE v = "nested" ->
           << AnnElem("d1", ats, <<Hidden, "fill:none">>,
                      << AnnElem("d2", "4.0", <<Hidden>>, <<>>), PollElem >>),
              Elem("g", [id |-> "d0"], <<>>),
              PathElem >>
      [] v = "nohidden" -> << AnnElem("d1", ats, <<"stroke:red">>, <<>>) >>
      [] v = "nostyle" ->
           << Elem("g", [id |-> "d1", timestamp |-> ats], <<>>) >>
      [] OTHER -> << AnnElem("d1", ats, <<"stroke:red", Hidden>>, <<>>) >>

Canvas1(ats, v) ==
    CASE v = "badclass" ->
           Elem("g", [id |-> "canvas1", class |-> "shape", image |-> "image1"],
                Anns1(ats, v))
      [] v = "noclass" ->
           Elem("g", [id |-> "canvas1", image |-> "image1"], Anns1(ats, v))
      [] v = "noimage" ->
           Elem("g", [id |-> "canvas1", class |-> "canvas"], Anns1(ats, v))
      [] OTHER -> CanvasElem("canvas1", "image1", Anns1(ats, v))

Doc(iv, ats, v) ==
    Elem("svg",
         NoAttrib,
         << ImageElem("image1", Href1, iv[1], iv[2]),
            ImageElem("image2", Href2, iv[3], iv[4]) >>
         \o (IF v = "noid" THEN << Elem("image", [href |-> Href3], <<>>) >>
             ELSE <<>>)
         \o << Canvas1(ats, v), CanvasElem("canvas2", "image2", <<>>) >>)

(* documents with fewer than two distinct timestamps *)
DegenerateDocs ==
    { Elem("svg", NoAttrib, <<>>),
      Elem("svg", NoAttrib,
           << ImageElem("image1", Href1, "2.0", "2"),
              CanvasElem("canvas1", "image1", <<>>) >>) }

HealthyDocs ==
    { Doc(Consecutive, "1.0", "plain"),
      Doc(LateStart, "1.0", "plain"),
      Doc(Overlapping, "1.0", "plain"),
      Doc(Consecutive, "1.0", "nested") }

DefectDocs == { Doc(Consecutive, "1.0", v) : v \in Defects }

Docs == HealthyDocs \cup DefectDocs \cup DegenerateDocs

(* documents for the timeline extractor alone: attributes on the root,     *)
(* values repeated under several spellings, values nested two levels deep  *)
MaxKids == 3

ExtractElems ==
    { ImageElem("image1", Href1, "0", "2.0"),
      ImageElem("image2", Href2, "2", "4.0"),
      CanvasElem("canvas1", "image1",
                 << AnnElem("d1", "1.0", <<Hidden>>,
                            << AnnElem("d2", "3.0", <<Hidden>>, <<>>) >>) >>),
      PathElem }

RootAttribs ==
    { NoAttrib, [timestamp |-> "3.0"], [in |-> "1.0", out |-> "4.0"] }

ExtractDocs ==
    { Elem("svg", ra, kids) :
        ra \in RootAttribs,
        kids \in UNION { [1 .. n -> ExtractElems] : n \in 0 .. MaxKids } }

(* the runs: a document and the hrefs the server does not have *)
Inputs ==
    { <<d, {}>> : d \in Docs }
    \cup { <<Doc(Consecutive, "1.0", "plain"), {Href2}>> }

(***************************************************************************)
(* Tree access by path (a path is the sequence of child indices)           *)
(***************************************************************************)
RECURSIVE ElemAt(_, _)
ElemAt(tree, path) ==
    IF path = <<>> THEN tree
    ELSE ElemAt(tree.children[Head(path)], Tail(path))

RECURSIVE ReplaceAt(_, _, _)
ReplaceAt(tree, path, e) ==
    IF path = <<>> THEN e
    ELSE [tree EXCEPT !.children[Head(path)] =
              ReplaceAt(tree.children[Head(path)], Tail(path), e)]

(* tree.findall("svg:<tag>"): the indices of the direct children so tagged *)
FindAll(tree, tag) ==
    { i \in DOMAIN tree.children : tree.children[i].tag = tag }

(* all elements below the root (RECURSIVE over depth) *)
RECURSIVE Descendants(_)
Descendants(tree) ==
    UNION { {tree.children[i]} \cup Descendants(tree.children[i]) :
            i \in DOMAIN tree.children }

(***************************************************************************)
(* fetch_images(tree): the order in which image elements are put           *)
(***************************************************************************)
RECURSIVE FetchOrder(_, _)
RECURSIVE FetchOrderFrom(_, _, _)
FetchOrderFrom(tree, path, i) ==
    IF i > Len(tree.children) THEN <<>>
    ELSE FetchOrder(tree.children[i], Append(path, i))
         \o FetchOrderFrom(tree, path, i + 1)

FetchOrder(tree, path) ==
    LET own == [i \in DOMAIN tree.children |->
                   IF tree.children[i].tag = "image"
                   THEN << Append(path, i) >> ELSE <<>>]
        RECURSIVE Cat(_)
        Cat(i) == IF i > Len(tree.children) THEN <<>> ELSE own[i] \o Cat(i + 1)
    IN  Cat(1) \o FetchOrderFrom(tree, path, 1)

(***************************************************************************)
(* read_timestamps                                                         *)
(***************************************************************************)
(* lines 103-108 for one element *)
OwnTimestamps(e) ==
    (IF Has(e, "in") THEN << Float(e.attrib["in"]) >> ELSE <<>>)
    \o (IF Has(e, "out") THEN << Float(e.attrib["out"]) >> ELSE <<>>)
    \o (IF Has(e, "timestamp") THEN << Float(e.attrib["timestamp"]) >>
        ELSE <<>>)

(* read_timestamps(tree): what the recursive call appends, in order *)
RECURSIVE CollectTimestamps(_)
RECURSIVE CollectFrom(_, _)
CollectFrom(tree, i) ==
    IF i > Len(tree.children) THEN <<>>
    ELSE OwnTimestamps(tree.children[i])
         \o CollectTimestamps(tree.children[i])
         \o CollectFrom(tree, i + 1)

CollectTimestamps(tree) == CollectFrom(tree, 1)

(* read_timestamps(), lines 96-99: self.timestamps is reset, the recursive  *)
(* call appends to it, then it is deduplicated and sorted                  *)
read_timestamps(self_timestamps, tree) ==
    LET reset == <<>>
    IN  ListSort(DictFromKeys(reset \o CollectTimestamps(tree)))

(***************************************************************************)
(* generate_frame: the active asset and the pruning of the deep copy       *)
(***************************************************************************)
(* lines 132-135: the last Image of self.images whose interval holds t *)
RECURSIVE ActiveImage(_, _)
ActiveImage(imgs, timestamp) ==
    IF imgs = <<>> THEN None
    ELSE LET i == Last(imgs)
         IN  IF timestamp >= i.ts_in /\ timestamp < i.ts_out THEN i.id
             ELSE ActiveImage(SubSeq(imgs, 1, Len(imgs) - 1), timestamp)

(* e.attrib["style"].split(";"): the style value is kept as its tokens *)
Split(style) == style

(* VisibleChild with the comparison of line 163 turned round *)
VisibleChild_Flipped(e, timestamp) ==
    IF e.tag # "g" THEN [err |-> "", keep |-> TRUE, e |-> e]
    ELSE IF Has(e, "timestamp") /\ Float(e.attrib["timestamp"]) >= timestamp
    THEN IF ~Has(e, "style") THEN [err |-> "KeyError", keep |-> FALSE, e |-> e]
         ELSE IF Hidden \notin Range(Split(e.attrib["style"]))
         THEN [err |-> "ValueError", keep |-> FALSE, e |-> e]
         ELSE [err |-> "", keep |-> TRUE,
               e |-> SetAttr(e, "style",
                             Join(ListRemove(Split(e.attrib["style"]), Hidden)))]
    ELSE [err |-> "", keep |-> FALSE, e |-> e]

(* lines 162-168 for one child e of the canvas group:                      *)
(* [err, keep, e], err the exception raised ("" for none)                  *)
VisibleChild(e, timestamp) ==
    IF e.tag # "g" THEN [err |-> "", keep |-> TRUE, e |-> e]
    ELSE IF Has(e, "timestamp") /\ Float(e.attrib["timestamp"]) <= timestamp
    THEN IF ~Has(e, "style") THEN [err |-> "KeyError", keep |-> FALSE, e |-> e]
         ELSE IF Hidden \notin Range(Split(e.attrib["style"]))
         THEN [err |-> "ValueError", keep |-> FALSE, e |-> e]
         ELSE [err |-> "", keep |-> TRUE,
               e |-> SetAttr(e, "style",
                             Join(ListRemove(Split(e.attrib["style"]), Hidden)))]
    ELSE [err |-> "", keep |-> FALSE, e |-> e]

(* make_visible(tree, timestamp): [err, tree] *)
RECURSIVE VisibleFrom(_, _, _)
VisibleFrom(children, i, timestamp) ==
    IF i > Len(children) THEN [err |-> "", children |-> <<>>]
    ELSE LET c == VisibleChild(children[i], timestamp)
         IN  IF c.err # "" THEN [err |-> c.err, children |-> <<>>]
             ELSE LET rest == VisibleFrom(children, i + 1, timestamp)
                  IN  [err |-> rest.err,
                       children |-> (IF c.keep THEN <<c.e>> ELSE <<>>)
                                    \o rest.children]

make_visible(tree, timestamp) ==
    LET r == VisibleFrom(tree.children, 1, timestamp)
    IN  [err |-> r.err, tree |-> [tree EXCEPT !.children = r.children]]

(* PruneImage without the else branch that removes the other images *)
PruneImage_NoRemove(e, image) ==
    IF e.tag # "image" THEN [err |-> "", keep |-> TRUE, e |-> e]
    ELSE IF ~Has(e, "id") THEN [err |-> "KeyError", keep |-> FALSE, e |-> e]
    ELSE IF e.attrib["id"] = image
    THEN [err |-> "", keep |-> TRUE, e |-> SetAttr(e, "style", <<"">>)]
    ELSE [err |-> "", keep |-> TRUE, e |-> e]

(* lines 136-140 for one top-level child *)
PruneImage(e, image) ==
    IF e.tag # "image" THEN [err |-> "", keep |-> TRUE, e |-> e]
    ELSE IF ~Has(e, "id") THEN [err |-> "KeyError", keep |-> FALSE, e |-> e]
    ELSE IF e.attrib["id"] = image
    THEN [err |-> "", keep |-> TRUE, e |-> SetAttr(e, "style", <<"">>)]
    ELSE [err |-> "", keep |-> FALSE, e |-> e]

(* PruneGroup without the else branch that removes the other groups *)
PruneGroup_NoRemove(e, image, timestamp) ==
    IF e.tag # "g" THEN [err |-> "", keep |-> TRUE, e |-> e]
    ELSE IF ~Has(e, "class") THEN [err |-> "KeyError", keep |-> FALSE, e |-> e]
    ELSE IF e.attrib["class"] # "canvas"
    THEN [err |-> "AssertionError", keep |-> FALSE, e |-> e]
    ELSE IF ~Has(e, "image") THEN [err |-> "KeyError", keep |-> FALSE, e |-> e]
    ELSE IF e.attrib["image"] = image
    THEN LET v == make_visible(SetAttr(e, "display", "inherit"), timestamp)
         IN  [err |-> v.err, keep |-> TRUE, e |-> v.tree]
    ELSE [err |-> "", keep |-> TRUE, e |-> e]

(* lines 141-147 for one top-level child *)
PruneGroup(e, image, timestamp) ==
    IF e.tag # "g" THEN [err |-> "", keep |-> TRUE, e |-> e]
    ELSE IF ~Has(e, "class") THEN [err |-> "KeyError", keep |-> FALSE, e |-> e]
    ELSE IF e.attrib["class"] # "canvas"
    THEN [err |-> "AssertionError", keep |-> FALSE, e |-> e]
    ELSE IF ~Has(e, "image") THEN [err |-> "KeyError", keep |-> FALSE, e |-> e]
    ELSE IF e.attrib["image"] = image
    THEN LET v == make_visible(SetAttr(e, "display", "inherit"), timestamp)
         IN  [err |-> v.err, keep |-> TRUE, e |-> v.tree]
    ELSE [err |-> "", keep |-> FALSE, e |-> e]

(* one findall loop over the top-level children: [err, children] *)
RECURSIVE PruneFrom(_, _, _, _, _)
PruneFrom(children, i, image, timestamp, pass) ==
    IF i > Len(children) THEN [err |-> "", children |-> <<>>]
    ELSE LET c == IF pass = "image" THEN PruneImage(children[i], image)
                  ELSE PruneGroup(children[i], image, timestamp)
         IN  IF c.err # "" THEN [err |-> c.err, children |-> <<>>]
             ELSE LET rest == PruneFrom(children, i + 1, image, timestamp, pass)
                  IN  [err |-> rest.err,
                       children |-> (IF c.keep THEN <<c.e>> ELSE <<>>)
                                    \o rest.children]

(* lines 131-147: the pruned deep copy for interval start timestamp,       *)
(* [err, shapes]                                                           *)
PrunedCopy(doc, imgs, timestamp) ==
    LET image == ActiveImage(imgs, timestamp)
        p1 == PruneFrom(doc.children, 1, image, timestamp, "image")
        p2 == PruneFrom(p1.children, 1, image, timestamp, "g")
    IN  IF p1.err # "" THEN [err |-> p1.err, shapes |-> doc]
        ELSE [err |-> p2.err, shapes |-> [doc EXCEPT !.children = p2.children]]

(* line 148: os.path.join("frames", "shapes{}.png".format(timestamp)) *)
FrameName(timestamp) == <<"frames", "shapes", timestamp, ".png">>

(* line 156 *)
Frame(timestamp, ts_out) ==
    [fname |-> FrameName(timestamp), ts_in |-> timestamp, ts_out |-> ts_out]

(***************************************************************************)
(* generate_concat: the lines written to concat.txt                        *)
(***************************************************************************)
(* ConcatPairs that writes ts_out as the duration *)
RECURSIVE ConcatPairs_NoSubtract(_)
ConcatPairs_NoSubtract(fs) ==
    IF fs = <<>> THEN <<>>
    ELSE << <<"file", Head(fs).fname>>, <<"duration", Head(fs).ts_out>> >>
         \o ConcatPairs_NoSubtract(Tail(fs))

RECURSIVE ConcatPairs(_)
ConcatPairs(fs) ==
    IF fs = <<>> THEN <<>>
    ELSE << <<"file", Head(fs).fname>>,
            <<"duration", Head(fs).ts_out - Head(fs).ts_in>> >>
         \o ConcatPairs(Tail(fs))

ConcatLines(fs) == ConcatPairs(fs) \o << <<"file", Last(fs).fname>> >>


(***************************************************************************)
(* State                                                                   *)
(***************************************************************************)
VARIABLES
    shapes,      \* self.shapes, the shared Scene Document
    notfound,    \* hrefs for which the server answers "not found" (404)
    files,       \* asset files written to self.out: fname -> content
    saved,       \* content of shapes.svg in self.out
    images,      \* self.images
    workq,       \* self.workq: 0 (unset), 1 (fetch queue), 2 (frame queue)
    qitems,      \* per Queue object: the items waiting
    unfinished,  \* per Queue object: unfinished_tasks
    timestamps,  \* self.timestamps
    frames,      \* self.frames
    svgs,        \* frames/shapes<t>.svg written by the frame jobs: t -> doc
    concat,      \* lines of concat.txt
    pc,          \* position of the main thread
    cursor,      \* index of the next element of the loop the main thread is in
    t,           \* local t of generate_frames
    fw,          \* the fetch_image threads
    gw           \* the generate_frame threads

vars == << shapes, notfound, files, saved, images, workq, qitems, unfinished,
           timestamps, frames, svgs, concat, pc, cursor, t, fw, gw >>

Queues == {1, 2}

NotStarted == [pc |-> "unstarted", q |-> 0, job |-> <<>>, err |-> ""]

AtTop == [pc |-> "top", q |-> 0, job |-> <<>>, err |-> ""]

Dead(w, err) == [w EXCEPT !.pc = "dead", !.err = err]

(* the content fetcher: a not-found answer still carries a body *)
Content(href) == IF href \in notfound THEN "errorpage" ELSE "image"

Init ==
    /\ \E input \in Inputs : shapes = input[1] /\ notfound = input[2]
    /\ files = [x \in {} |-> ""]
    /\ saved = shapes
    /\ images = <<>>
    /\ workq = 0
    /\ qitems = [q \in Queues |-> <<>>]
    /\ unfinished = [q \in Queues |-> 0]
    /\ timestamps = <<>>
    /\ frames = <<>>
    /\ svgs = [x \in {} |-> shapes]
    /\ concat = <<>>
    /\ pc = "fetch_images"
    /\ cursor = 1
    /\ t = 0
    /\ fw = [w \in Workers |-> NotStarted]
    /\ gw = [w \in Workers |-> NotStarted]

(* Queue.put(item) *)
Put(q, item) ==
    /\ qitems' = [qitems EXCEPT ![q] = Append(@, item)]
    /\ unfinished' = [unfinished EXCEPT ![q] = @ + 1]

(***************************************************************************)
(* Main thread                                                             *)
(***************************************************************************)
(* fetch_images, lines 79-82 *)
FetchImagesStart ==
    /\ pc = "fetch_images"
    /\ images' = <<>>
    /\ workq' = 1
    /\ fw' = [w \in Workers |-> AtTop]
    /\ cursor' = 1
    /\ pc' = "fetch_images_put"
    /\ UNCHANGED << shapes, notfound, files, saved, qitems, unfinished,
                    timestamps, frames, svgs, concat, t, gw >>

(* fetch_images, lines 83 and 89-92: one workq.put of the traversal *)
FetchImagesPut ==
    /\ pc = "fetch_images_put"
    /\ cursor <= Len(FetchOrder(shapes, <<>>))
    /\ Put(workq, FetchOrder(shapes, <<>>)[cursor])
    /\ cursor' = cursor + 1
    /\ UNCHANGED << shapes, notfound, files, saved, images, workq, timestamps,
                    frames, svgs, concat, pc, t, fw, gw >>

(* fetch_images, lines 84-85: shapes.svg is written before the join *)
FetchImagesWrite ==
    /\ pc = "fetch_images_put"
    /\ cursor > Len(FetchOrder(shapes, <<>>))
    /\ saved' = shapes
    /\ pc' = "fetch_images_join"
    /\ UNCHANGED << shapes, notfound, files, images, workq, qitems, unfinished,
                    timestamps, frames, svgs, concat, cursor, t, fw, gw >>

(* FetchImagesJoin that does not wait for the queue to drain *)
FetchImagesJoin_NoWait ==
    /\ pc = "fetch_images_join"
    /\ pc' = "read_timestamps"
    /\ UNCHANGED << shapes, notfound, files, saved, images, workq, qitems,
                    unfinished, timestamps, frames, svgs, concat, cursor, t,
                    fw, gw >>

(* fetch_images, lines 86-87: workq.join() returns *)
FetchImagesJoin ==
    /\ pc = "fetch_images_join"
    /\ unfinished[workq] = 0
    /\ pc' = "read_timestamps"
    /\ UNCHANGED << shapes, notfound, files, saved, images, workq, qitems,
                    unfinished, timestamps, frames, svgs, concat, cursor, t,
                    fw, gw >>

(* read_timestamps, lines 95-100 *)
ReadTimestamps ==
    /\ pc = "read_timestamps"
    /\ timestamps' = read_timestamps(timestamps, shapes)
    /\ pc' = "generate_frames"
    /\ UNCHANGED << shapes, notfound, files, saved, images, workq, qitems,
                    unfinished, frames, svgs, concat, cursor, t, fw, gw >>

(* a further call of read_timestamps() on the same object, lines 95-100 *)
ReadTimestampsAgain ==
    /\ pc = "generate_frames"
    /\ timestamps' = read_timestamps(timestamps, shapes)
    /\ UNCHANGED << shapes, notfound, files, saved, images, workq, qitems,
                    unfinished, frames, svgs, concat, pc, cursor, t, fw, gw >>

(* generate_frames, lines 116-122 *)
GenerateFramesStart ==
    /\ pc = "generate_frames"
    /\ frames' = <<>>
    /\ workq' = 2
    /\ gw' = [w \in Workers |-> AtTop]
    /\ t' = 0
    /\ cursor' = 2
    /\ pc' = "generate_frames_put"
    /\ UNCHANGED << shapes, notfound, files, saved, images, qitems, unfinished,
                    timestamps, svgs, concat, fw >>

(* GenerateFramesPut without the assignment t = ts of line 125 *)
GenerateFramesPut_NoAdvance ==
    /\ pc = "generate_frames_put"
    /\ cursor <= Len(timestamps)
    /\ Put(workq, <<t, timestamps[cursor]>>)
    /\ t' = t
    /\ cursor' = cursor + 1
    /\ UNCHANGED << shapes, notfound, files, saved, images, workq, timestamps,
                    frames, svgs, concat, pc, fw, gw >>

(* generate_frames, lines 123-125: one iteration over self.timestamps[1:] *)
GenerateFramesPut ==
    /\ pc = "generate_frames_put"
    /\ cursor <= Len(timestamps)
    /\ Put(workq, <<t, timestamps[cursor]>>)
    /\ t' = timestamps[cursor]
    /\ cursor' = cursor + 1
    /\ UNCHANGED << shapes, notfound, files, saved, images, workq, timestamps,
                    frames, svgs, concat, pc, fw, gw >>

(* GenerateFramesJoin that does not wait for the queue to drain *)
GenerateFramesJoin_NoWait ==
    /\ pc = "generate_frames_put"
    /\ cursor > Len(timestamps)
    /\ pc' = "generate_concat"
    /\ UNCHANGED << shapes, notfound, files, saved, images, workq, qitems,
                    unfinished, timestamps, frames, svgs, concat, cursor, t,
                    fw, gw >>

(* generate_frames, line 126: workq.join() returns *)
GenerateFramesJoin ==
    /\ pc = "generate_frames_put"
    /\ cursor > Len(timestamps)
    /\ unfinished[workq] = 0
    /\ pc' = "generate_concat"
    /\ UNCHANGED << shapes, notfound, files, saved, images, workq, qitems,
                    unfinished, timestamps, frames, svgs, concat, cursor, t,
                    fw, gw >>

(* generate_concat, lines 171-176; self.frames[-1] of an empty list raises *)
GenerateConcat ==
    /\ pc = "generate_concat"
    /\ IF frames = <<>>
       THEN /\ pc' = "IndexError"
            /\ concat' = concat
       ELSE /\ pc' = "render_slides"
            /\ concat' = ConcatLines(frames)
    /\ UNCHANGED << shapes, notfound, files, saved, images, workq, qitems,
                    unfinished, timestamps, frames, svgs, cursor, t, fw, gw >>

(***************************************************************************)
(* fetch_image threads                                                     *)
(***************************************************************************)
(* line 63: self.workq is evaluated, then get() is called on that Queue *)
FetchTop(w) ==
    /\ fw[w].pc = "top"
    /\ fw' = [fw EXCEPT ![w] = [@ EXCEPT !.pc = "get", !.q = workq]]
    /\ UNCHANGED << shapes, notfound, files, saved, images, workq, qitems,
                    unfinished, timestamps, frames, svgs, concat, pc, cursor,
                    t, gw >>

(* line 63: get() returns an item of the Queue object it was called on *)
FetchGet(w) ==
    /\ fw[w].pc = "get"
    /\ qitems[fw[w].q] # <<>>
    /\ fw' = [fw EXCEPT ![w] = [@ EXCEPT !.pc = "got",
                                         !.job = Head(qitems[fw[w].q])]]
    /\ qitems' = [qitems EXCEPT ![fw[w].q] = Tail(@)]
    /\ UNCHANGED << shapes, notfound, files, saved, images, workq, unfinished,
                    timestamps, frames, svgs, concat, pc, cursor, t, gw >>

(* lines 64-75 for the item got *)
FetchWork(w) ==
    /\ fw[w].pc = "got"
    /\ IF fw[w].q # 1
       THEN \* the item is an interval tuple: e.attrib raises
            /\ fw' = [fw EXCEPT ![w] = Dead(@, "AttributeError")]
            /\ UNCHANGED << shapes, files, images, unfinished >>
       ELSE LET e == ElemAt(shapes, fw[w].job)
            IN  IF ~Has(e, "href")
                THEN /\ fw' = [fw EXCEPT ![w] = Dead(@, "KeyError")]
                     /\ UNCHANGED << shapes, files, images, unfinished >>
                ELSE LET href == e.attrib["href"]
                         fname == Basename(href)
                     IN  /\ files' = [x \in (DOMAIN files) \cup {fname} |->
                                        IF x = fname THEN Content(href)
                                        ELSE files[x]]
                         /\ shapes' = ReplaceAt(shapes, fw[w].job,
                                                SetAttr(e, "href", fname))
                         /\ IF Has(e, "id") /\ ~(Has(e, "in") /\ Has(e, "out"))
                            THEN /\ fw' = [fw EXCEPT ![w] = Dead(@, "KeyError")]
                                 /\ UNCHANGED << images, unfinished >>
                            ELSE /\ images' =
                                      IF Has(e, "id")
                                      THEN Append(images,
                                             [id |-> e.attrib["id"],
                                              fname |-> fname,
                                              ts_in |-> Float(e.attrib["in"]),
                                              ts_out |-> Float(e.attrib["out"])])
                                      ELSE images
                                 /\ unfinished' =
                                      [unfinished EXCEPT ![fw[w].q] = @ - 1]
                                 /\ fw' = [fw EXCEPT ![w] = AtTop]
    /\ UNCHANGED << notfound, saved, workq, qitems, timestamps, frames, svgs,
                    concat, pc, cursor, t, gw >>

(***************************************************************************)
(* generate_frame threads                                                  *)
(***************************************************************************)
(* line 130: self.workq is evaluated, then get() is called on that Queue *)
FrameTop(w) ==
    /\ gw[w].pc = "top"
    /\ gw' = [gw EXCEPT ![w] = [@ EXCEPT !.pc = "get", !.q = workq]]
    /\ UNCHANGED << shapes, notfound, files, saved, images, workq, qitems,
                    unfinished, timestamps, frames, svgs, concat, pc, cursor,
                    t, fw >>

(* line 130: get() returns an item of the Queue object it was called on *)
FrameGet(w) ==
    /\ gw[w].pc = "get"
    /\ qitems[gw[w].q] # <<>>
    /\ gw' = [gw EXCEPT ![w] = [@ EXCEPT !.pc = "got",
                                         !.job = Head(qitems[gw[w].q])]]
    /\ qitems' = [qitems EXCEPT ![gw[w].q] = Tail(@)]
    /\ UNCHANGED << shapes, notfound, files, saved, images, workq, unfinished,
                    timestamps, frames, svgs, concat, pc, cursor, t, fw >>

(* FrameWork that prunes self.shapes itself instead of a deep copy *)
FrameWork_NoDeepCopy(w) ==
    /\ gw[w].pc = "got"
    /\ LET timestamp == gw[w].job[1]
           ts_out == gw[w].job[2]
           r == PrunedCopy(shapes, images, timestamp)
       IN  IF r.err # ""
           THEN /\ gw' = [gw EXCEPT ![w] = Dead(@, r.err)]
                /\ UNCHANGED << shapes, svgs, frames, unfinished >>
           ELSE /\ shapes' = r.shapes
                /\ svgs' = [x \in (DOMAIN svgs) \cup {timestamp} |->
                              IF x = timestamp THEN r.shapes ELSE svgs[x]]
                /\ frames' = Append(frames, Frame(timestamp, ts_out))
                /\ unfinished' = [unfinished EXCEPT ![gw[w].q] = @ - 1]
                /\ gw' = [gw EXCEPT ![w] = AtTop]
    /\ UNCHANGED << notfound, files, saved, images, workq, qitems,
                    timestamps, concat, pc, cursor, t, fw >>

(* lines 131-158 for the interval got *)
FrameWork(w) ==
    /\ gw[w].pc = "got"
    /\ LET timestamp == gw[w].job[1]
           ts_out == gw[w].job[2]
           r == PrunedCopy(shapes, images, timestamp)
       IN  IF r.err # ""
           THEN /\ gw' = [gw EXCEPT ![w] = Dead(@, r.err)]
                /\ UNCHANGED << svgs, frames, unfinished >>
           ELSE /\ svgs' = [x \in (DOMAIN svgs) \cup {timestamp} |->
                              IF x = timestamp THEN r.shapes ELSE svgs[x]]
                /\ frames' = Append(frames, Frame(timestamp, ts_out))
                /\ unfinished' = [unfinished EXCEPT ![gw[w].q] = @ - 1]
                /\ gw' = [gw EXCEPT ![w] = AtTop]
    /\ UNCHANGED << shapes, notfound, files, saved, images, workq, qitems,
                    timestamps, concat, pc, cursor, t, fw >>

Next ==
    \/ FetchImagesStart
    \/ FetchImagesPut
    \/ FetchImagesWrite
    \/ FetchImagesJoin
    \/ ReadTimestamps
    \/ GenerateFramesStart
    \/ GenerateFramesPut
    \/ GenerateFramesJoin
    \/ GenerateConcat
    \/ \E w \in Workers : FetchTop(w)
    \/ \E w \in Workers : FetchGet(w)
    \/ \E w \in Workers : FetchWork(w)
    \/ \E w \in Workers : FrameTop(w)
    \/ \E w \in Workers : FrameGet(w)
    \/ \E w \in Workers : FrameWork(w)

Spec == Init /\ [][Next]_vars

(***************************************************************************)
(* The timeline extractor on its own: read_timestamps applied, and applied *)
(* again, to each document of ExtractDocs                                  *)
(***************************************************************************)
InitExtract ==
    /\ shapes \in ExtractDocs
    /\ notfound = {}
    /\ files = [x \in {} |-> ""]
    /\ saved = shapes
    /\ images = <<>>
    /\ workq = 0
    /\ qitems = [q \in Queues |-> <<>>]
    /\ unfinished = [q \in Queues |-> 0]
    /\ timestamps = <<>>
    /\ frames = <<>>
    /\ svgs = [x \in {} |-> shapes]
    /\ concat = <<>>
    /\ pc = "read_timestamps"
    /\ cursor = 1
    /\ t = 0
    /\ fw = [w \in Workers |-> NotStarted]
    /\ gw = [w \in Workers |-> NotStarted]

NextExtract ==
    \/ ReadTimestamps
    \/ ReadTimestampsAgain

SpecExtract == InitExtract /\ [][NextExtract]_vars


(***************************************************************************)
(* Properties                                                              *)
(***************************************************************************)
(* generate_frames has returned *)
FramesReturned == pc \in {"generate_concat", "render_slides", "IndexError"}

(* the indices of the frames whose interval ends at breakpoint ts *)
FramesEndingAt(ts) == { k \in DOMAIN frames : frames[k].ts_out = ts }

(* the frames sorted ascending by ts_in (stable) *)
RECURSIVE InsertByTsIn(_, _)
InsertByTsIn(s, f) ==
    IF s = <<>> THEN <<f>>
    ELSE IF f.ts_in < Head(s).ts_in THEN <<f>> \o s
    ELSE <<Head(s)>> \o InsertByTsIn(Tail(s), f)

RECURSIVE SortByTsIn(_)
SortByTsIn(fs) ==
    IF fs = <<>> THEN <<>>
    ELSE InsertByTsIn(SortByTsIn(SubSeq(fs, 1, Len(fs) - 1)), Last(fs))

(* C1: once generate_frames has returned for a document with at least two *)
(* breakpoints, self.frames holds len(timestamps) - 1 Frames, exactly one  *)
(* for each interval (identified by the breakpoint that closes it),        *)
(* whatever the interleaving of the workers.                               *)
C1_OneFramePerInterval ==
    (FramesReturned /\ Len(timestamps) >= 2) =>
        /\ Len(frames) = Len(timestamps) - 1
        /\ \A i \in 2 .. Len(timestamps) :
              Cardinality(FramesEndingAt(timestamps[i])) = 1

(* a run in which the frames were appended out of submission order *)
C1_Witness ==
    /\ FramesReturned
    /\ Len(timestamps) >= 3
    /\ Len(frames) = Len(timestamps) - 1
    /\ \E k \in 1 .. Len(frames) - 1 : frames[k].ts_in > frames[k + 1].ts_in

(* the Frame a file directive of concat.txt names *)
FrameOfFile(fname) == CHOOSE f \in Range(frames) : f.fname = fname

(* the number of (file, duration) pairs of concat.txt *)
NumPairs == (Len(concat) - 1) \div 2

(* C2: the manifest lists the Frames in ascending ts_in order: of any two  *)
(* consecutive (file, duration) pairs the first belongs to the Frame with  *)
(* the smaller ts_in.                                                      *)
C2_ManifestAscending ==
    pc = "render_slides" =>
        \A k \in 1 .. NumPairs - 1 :
            FrameOfFile(concat[2 * k - 1][2]).ts_in
                < FrameOfFile(concat[2 * k + 1][2]).ts_in

(* C3: every Frame's (ts_in, ts_out) is a pair of consecutive breakpoints, *)
(* the first interval's Frame starting at timestamps[1] (breakpoint[0]).   *)
C3_FramesMatchBreakpoints ==
    \A k \in DOMAIN frames :
        \E i \in 1 .. Len(timestamps) - 1 :
            /\ frames[k].ts_in = timestamps[i]
            /\ frames[k].ts_out = timestamps[i + 1]

(* C4: after frame synthesis the Frames sorted by ts_in are contiguous:    *)
(* each one ends where the next one starts.                                *)
C4_NoGapNoOverlap ==
    FramesReturned =>
        LET s == SortByTsIn(frames)
        IN  \A i \in 1 .. Len(s) - 1 : s[i].ts_out = s[i + 1].ts_in

(* three frames, appended out of order, after the join *)
C4_Witness ==
    /\ FramesReturned
    /\ Len(frames) >= 3
    /\ frames # SortByTsIn(frames)

(* C5: for n >= 1 Frames the manifest is n (file, duration) pairs, each    *)
(* with duration ts_out - ts_in of its Frame, then one trailing file       *)
(* directive naming the Frame with the greatest ts_in.                     *)
C5_ManifestShape ==
    (pc = "render_slides" /\ Len(frames) >= 1) =>
        /\ Len(concat) = 2 * Len(frames) + 1
        /\ \A k \in 1 .. Len(frames) :
              /\ concat[2 * k - 1][1] = "file"
              /\ concat[2 * k][1] = "duration"
              /\ concat[2 * k][2] =
                    FrameOfFile(concat[2 * k - 1][2]).ts_out
                    - FrameOfFile(concat[2 * k - 1][2]).ts_in
        /\ { concat[2 * k - 1][2] : k \in 1 .. Len(frames) }
              = { f.fname : f \in Range(frames) }
        /\ Last(concat)[1] = "file"
        /\ \A f \in Range(frames) :
              f.ts_in <= FrameOfFile(Last(concat)[2]).ts_in

(* the ids of the elements of a document, at any depth *)
IdsIn(doc) == { e.attrib["id"] : e \in { x \in Descendants(doc) : Has(x, "id") } }

(* the annotations of the Scene Document: groups that carry a timestamp *)
Annotations ==
    { e.attrib["id"] :
        e \in { x \in Descendants(shapes) :
                  x.tag = "g" /\ Has(x, "timestamp") /\ Has(x, "id") } }

(* the ids of the top-level images that survive in a pruned document *)
TopImages(doc) == { doc.children[i].attrib["id"] : i \in FindAll(doc, "image") }

(* C6 as stated: an annotation present in the frame of the interval        *)
(* starting at t is present in the frame of every interval starting at a   *)
(* later t2, also when another asset is the active one there.              *)
C6_RevealMonotonic ==
    \A a \in Annotations : \A t1 \in DOMAIN svgs : \A t2 \in DOMAIN svgs :
        (t1 < t2 /\ a \in IdsIn(svgs[t1])) => a \in IdsIn(svgs[t2])

(* C6 amended: an annotation present in the frame of the interval starting *)
(* at t is present in the frame of every interval starting at a later t2   *)
(* in which the same asset is the active one.                              *)
C6_RevealMonotonicSameAsset ==
    \A a \in Annotations : \A t1 \in DOMAIN svgs : \A t2 \in DOMAIN svgs :
        (t1 < t2 /\ a \in IdsIn(svgs[t1])
           /\ TopImages(svgs[t1]) = TopImages(svgs[t2]))
        => a \in IdsIn(svgs[t2])

(* an annotation revealed in two frames of the same asset *)
C6_Witness ==
    \E a \in Annotations : \E t1 \in DOMAIN svgs : \E t2 \in DOMAIN svgs :
        /\ t1 < t2
        /\ a \in IdsIn(svgs[t1])
        /\ a \in IdsIn(svgs[t2])
        /\ TopImages(svgs[t1]) = TopImages(svgs[t2])

(* C7: in every frame's pruned document at most one top-level image and at *)
(* most one top-level canvas group survive, and the surviving group's      *)
(* image attribute is the surviving image's id.                            *)
C7_AssetExclusive ==
    \A ts \in DOMAIN svgs :
        LET doc == svgs[ts]
        IN  /\ Cardinality(FindAll(doc, "image")) <= 1
            /\ Cardinality(FindAll(doc, "g")) <= 1
            /\ \A g \in FindAll(doc, "g") :
                  /\ doc.children[g].attrib["class"] = "canvas"
                  /\ doc.children[g].attrib["image"] \in TopImages(doc)

(* a frame whose start lies in the intervals of two Assets, pruned down to *)
(* one image and its canvas group                                          *)
C7_Witness ==
    \E ts \in DOMAIN svgs :
        /\ Cardinality({ k \in DOMAIN images :
                           images[k].ts_in <= ts /\ ts < images[k].ts_out }) >= 2
        /\ Cardinality(FindAll(svgs[ts], "image")) = 1
        /\ Cardinality(FindAll(svgs[ts], "g")) = 1


(* the in, out and timestamp values carried by an element *)
ValuesOf(e) ==
    { Float(e.attrib[k]) : k \in {"in", "out", "timestamp"} \cap DOMAIN e.attrib }

(* the values carried by any element below the root *)
ValuesBelowRoot(doc) == UNION { ValuesOf(e) : e \in Descendants(doc) }

StrictlyIncreasing(s) == \A i \in 1 .. Len(s) - 1 : s[i] < s[i + 1]

ImagesWithHref(href) ==
    { e \in Descendants(shapes) :
        e.tag = "image" /\ Has(e, "href") /\ e.attrib["href"] = href }

(* C9: once fetch_images has returned, an image whose fetch was answered   *)
(* "not found" still has its href unrewritten and has no Asset record.     *)
C9_NotFoundLeftAlone ==
    pc = "read_timestamps" =>
        \A href \in notfound :
            /\ ImagesWithHref(href) # {}
            /\ \A k \in DOMAIN images : images[k].fname # Basename(href)

(* a top-level group that is no canvas or lacks class or image *)
StructuralDefect(doc) ==
    \E i \in FindAll(doc, "g") :
        \/ ~Has(doc.children[i], "class")
        \/ ~Has(doc.children[i], "image")
        \/ doc.children[i].attrib["class"] # "canvas"

(* a frame job has met the structural violation of the document *)
ViolationMet ==
    /\ StructuralDefect(shapes)
    /\ \E w \in Workers :
          gw[w].pc = "dead" /\ gw[w].err \in {"AssertionError", "KeyError"}

(* the main thread has ended with an exception *)
MainFailed == pc \in {"IndexError"}

(* C10: once a frame job has met a structural violation the run aborts: no *)
(* manifest is written and the run is not left blocked, i.e. the main      *)
(* thread has failed or some thread can still take a step.                 *)
C10_ViolationAborts ==
    ViolationMet =>
        /\ pc # "render_slides"
        /\ (MainFailed \/ ENABLED Next)


(* read_timestamps has run *)
Extracted ==
    pc \in {"generate_frames", "generate_frames_put", "generate_concat",
            "render_slides", "IndexError"}

(* C11: a document with fewer than two distinct timestamps is rejected     *)
(* before frame synthesis: no frame worker is started, no interval job is  *)
(* queued and generate_concat is not attempted.                            *)
C11_DegenerateRejected ==
    (Extracted /\ Len(timestamps) < 2) =>
        /\ \A w \in Workers : gw[w].pc = "unstarted"
        /\ unfinished[2] = 0
        /\ pc \notin {"generate_concat", "render_slides", "IndexError"}

(* the Assets whose interval [ts_in, ts_out) holds ts *)
AssetsAt(ts) ==
    { k \in DOMAIN images : images[k].ts_in <= ts /\ ts < images[k].ts_out }

(* the top level of the document is as generate_frame expects it: every    *)
(* image has an id, every group is a canvas with an image attribute        *)
TopLevelSound(doc) ==
    /\ ~StructuralDefect(doc)
    /\ \A i \in FindAll(doc, "image") : Has(doc.children[i], "id")

(* C12: for an interval whose start lies in no Asset's interval the frame  *)
(* job completes and emits its Frame, with every top-level image and every *)
(* canvas group pruned from the copy; no worker fails on such a job.       *)
C12_NoAssetEmptyFrame ==
    TopLevelSound(shapes) =>
        /\ \A ts \in DOMAIN svgs :
              AssetsAt(ts) = {} =>
                 /\ FindAll(svgs[ts], "image") = {}
                 /\ FindAll(svgs[ts], "g") = {}
                 /\ \E k \in DOMAIN frames : frames[k].ts_in = ts
        /\ \A w \in Workers :
              (gw[w].pc = "dead" /\ gw[w].q = 2) => AssetsAt(gw[w].job[1]) # {}

(* a frame was emitted for an interval start that no Asset covers, in a    *)
(* document that has images and canvas groups                              *)
C12_Witness ==
    \E ts \in DOMAIN svgs :
        /\ AssetsAt(ts) = {}
        /\ Len(images) = 2
        /\ FindAll(shapes, "g") # {}
        /\ \E k \in DOMAIN frames : frames[k].ts_in = ts

RECURSIVE SeqSum(_)
SeqSum(s) == IF s = <<>> THEN 0 ELSE Head(s) + SeqSum(Tail(s))

(* the durations of the (file, duration) pairs of concat.txt, in order *)
Durations == [k \in 1 .. NumPairs |-> concat[2 * k][2]]

(* C13: the durations of the non-trailing duration directives sum to the   *)
(* last Frame's ts_out minus the first Frame's ts_in, first and last being *)
(* the Frames with the smallest and the greatest ts_in.                    *)
C13_DurationsSum ==
    pc = "render_slides" =>
        LET s == SortByTsIn(frames)
        IN  SeqSum(Durations) = Last(s).ts_out - Head(s).ts_in

(* a manifest of three pairs written from frames appended out of order *)
C13_Witness ==
    /\ pc = "render_slides"
    /\ NumPairs = 3
    /\ frames # SortByTsIn(frames)


(* the top-level images of the Scene Document whose [in, out) holds ts *)
ImagesCovering(ts) ==
    { i \in FindAll(shapes, "image") :
        /\ Has(shapes.children[i], "id")
        /\ Has(shapes.children[i], "in")
        /\ Has(shapes.children[i], "out")
        /\ Float(shapes.children[i].attrib["in"]) <= ts
        /\ ts < Float(shapes.children[i].attrib["out"]) }

SetMax(S) == CHOOSE i \in S : \A j \in S : j <= i

(* C14: when the intervals of several Assets hold the interval start, the  *)
(* active asset of the frame is the one that comes later in document       *)
(* order, whatever the order in which the fetch workers filled self.images *)
C14_LaterInDocumentWins ==
    \A ts \in DOMAIN svgs :
        Cardinality(ImagesCovering(ts)) >= 2 =>
            TopImages(svgs[ts])
                = { shapes.children[SetMax(ImagesCovering(ts))].attrib["id"] }

(* C15: no fetch_image thread takes or processes an item of the Queue that *)
(* generate_frames installed.                                              *)
C15_PoolsDisjoint ==
    \A w \in Workers : ~(fw[w].q = 2 /\ fw[w].pc \in {"got", "dead"})

(* fetch_images has returned *)
FetchReturned ==
    pc \notin {"fetch_images", "fetch_images_put", "fetch_images_join"}

(* the image elements of the Scene Document, at any depth *)
ImageElems == { e \in Descendants(shapes) : e.tag = "image" }

(* the element's href is a local file name that was written, and its Asset *)
(* is recorded when it has an id                                           *)
Resolved(e) ==
    /\ Len(e.attrib["href"]) = 1
    /\ e.attrib["href"] \in DOMAIN files
    /\ Has(e, "id") =>
          \E k \in DOMAIN images :
              images[k].id = e.attrib["id"] /\ images[k].fname = e.attrib["href"]

(* C16: once fetch_images has returned every image element is fetched,    *)
(* rewritten and (with an id) recorded, and from then on no step rewrites  *)
(* an href or appends an Asset.                                            *)
C16_FetchCompleteAtReturn ==
    /\ [](FetchReturned => \A e \in ImageElems : Resolved(e))
    /\ [][FetchReturned => (shapes' = shapes /\ images' = images)]_vars

(* frame synthesis has started on a document with two recorded Assets and  *)
(* a rewritten image that has no id                                        *)
C16_Witness ==
    /\ pc = "generate_frames_put"
    /\ Len(images) = 2
    /\ \E e \in ImageElems : ~Has(e, "id") /\ Len(e.attrib["href"]) = 1


(* the annotations below an element, at any depth *)
AnnotationsUnder(e) ==
    { x \in Descendants(e) : x.tag = "g" /\ Has(x, "timestamp") /\ Has(x, "id") }

(* a style with its visibility:hidden token taken out, the rest in order *)
WithoutHidden(style) ==
    LET NotHidden(tok) == tok # Hidden
        rest == SelectSeq(style, NotHidden)
    IN  IF rest = <<>> THEN <<"">> ELSE rest

(* C17: in the frame for interval start ts, at every nesting depth of the  *)
(* retained canvas group an annotation survives if and only if its         *)
(* timestamp is <= ts, and a surviving annotation has lost its             *)
(* visibility:hidden token and kept its other style tokens in order.       *)
C17_RecursivePruning ==
    \A ts \in DOMAIN svgs : \A i \in FindAll(shapes, "g") :
        (/\ Has(shapes.children[i], "image")
         /\ shapes.children[i].attrib["image"] \in TopImages(svgs[ts]))
        => \A a \in AnnotationsUnder(shapes.children[i]) :
              /\ (a.attrib["id"] \in IdsIn(svgs[ts]))
                    <=> (Float(a.attrib["timestamp"]) <= ts)
              /\ \A x \in Descendants(svgs[ts]) :
                    (Has(x, "id") /\ x.attrib["id"] = a.attrib["id"])
                    => /\ Has(x, "style")
                       /\ Has(a, "style")
                       /\ x.attrib["style"] = WithoutHidden(a.attrib["style"])

(* C18: frame synthesis leaves self.shapes as it was: no step taken while  *)
(* generate_frames runs changes it, and every frame's document is the      *)
(* pruning of that unchanged document, whatever ran beside it.             *)
C18_SharedDocumentUnchanged ==
    /\ [][(pc \in {"generate_frames", "generate_frames_put"}) => (shapes' = shapes)]_vars
    /\ [](\A ts \in DOMAIN svgs :
             svgs[ts] = PrunedCopy(shapes, images, ts).shapes)

(* generate_frames has returned with three frames, each one a document     *)
(* that differs from the shared one                                        *)
C18_Witness ==
    /\ FramesReturned
    /\ Len(frames) = 3
    /\ \A ts \in DOMAIN svgs : svgs[ts] # shapes

(* C19: generate_frames always returns, also when a job fails inside a     *)
(* frame worker: while the main thread is inside it, with the frame queue  *)
(* served by the frame workers alone, the run is never stuck, some thread  *)
(* can still take a step.                                                  *)
C19_FramesNeverStuck ==
    (/\ pc \in {"generate_frames", "generate_frames_put"}
     /\ \A w \in Workers : fw[w].q # 2)
    => ENABLED Next

(* C20: the shapes.svg that fetch_images has written holds the rewritten   *)
(* (local) href of every image element.                                    *)
C20_SavedDocumentResolved ==
    FetchReturned =>
        \A e \in Descendants(saved) :
            (e.tag = "image" /\ Has(e, "href")) => Len(e.attrib["href"]) = 1

====
